---- MODULE Spec2Model ----
(***************************************************************************)
(* Model of src/blog/blog.js: the browser client of the blog.  The state   *)
(* is the module-level `state` object, the persisted token, the DOM fields *)
(* the handlers write, and the network calls in flight.  One action is one *)
(* run of a handler between two suspension points (await): an event        *)
(* handler up to its first await, or the continuation that runs when a     *)
(* call settles.  fetchJSON and escapeHtml are also studied on their own,  *)
(* as functions of a response and of a string (SpecFetch, SpecEscape).     *)
(***************************************************************************)
EXTENDS Bags, FiniteSets, Integers, Sequences, TLC

\* ---- bounds -------------------------------------------------------------
MaxPosts == 3     \* longest in-memory sequence (publish is capped here)
MaxEvents == 2    \* user events (clicks, submits) dispatched in one run
MaxLen == 4       \* longest string handed to escapeHtml

\* ---- values -------------------------------------------------------------
Ids == {"p1", "p2"}       \* the post identifiers the server hands out
Tokens == {"t1", "t2"}
Null == "null"            \* JavaScript null
Undef == "undefined"      \* a missing property
Empty == ""               \* the empty string
BadPost == "null"         \* fetchJSON's null (204) stored as a post

MsgEnterBoth == "Enter both username and password."
MsgWelcome == "Welcome back! You're signed in."
MsgBadCreds == "Credentials were incorrect."
MsgSignInFail == "Unable to sign in. Please try again."
MsgExpired == "Session expired. Please sign in again."
MsgLoadFail == "Unable to load posts at the moment."
MsgSignInToPublish == "Sign in to publish posts."
MsgAddBoth == "Add both a title and content before publishing."
MsgPublished == "Post published."
MsgPublishFail == "Unable to publish. Please try again."
MsgSignInToManage == "Sign in to manage posts."
MsgDeleted == "Post deleted."
MsgDeleteFail == "Unable to delete post."
MsgNoExport == "There are no posts to export."
MsgExported == "Export downloaded."
MsgNothing == "Nothing to clear."
MsgSignInToRemove == "Sign in to remove posts."
MsgCleared == "All posts removed."
MsgClearFail == "Unable to clear posts."

VARIABLES
  storage,          \* localStorage[STORAGE_KEY]: Null when absent
  token,            \* state.token
  authed,           \* state.authed
  posts,            \* state.posts
  rendered,         \* postsContainer: <<>> is the placeholder
  loginError,       \* loginError.textContent
  editorMessage,    \* editorMessage.textContent
  publishDisabled,  \* publishButton.disabled
  clearDisabled,    \* clearButton.disabled
  calls,            \* bag of workflows suspended on a network call
  resume,           \* the caller of loadPosts about to continue
  last,             \* the event the last step handled, and its input
  events,           \* user events dispatched so far
  response,         \* fetchJSON: the Response that fetch resolved with
  outcome,          \* fetchJSON: what the call returned or threw
  value,            \* escapeHtml: its argument, a sequence of characters
  escaped           \* escapeHtml: whether it returned, and what

\* the page: everything the handlers read and write
page == <<storage, token, authed, posts, rendered, loginError, editorMessage,
          publishDisabled, clearDisabled, calls, resume, last, events>>

\* a function under study on its own, with its argument and result
unit == <<response, outcome, value, escaped>>

vars == <<page, unit>>

\* ---- helpers ------------------------------------------------------------
\* JavaScript truthiness of a token value
Truthy(t) == t \in Tokens

\* authHeaders() when state.token is tk: the bearer token the request
\* carries, Null for no Authorization header
AuthHeader(tk) == IF Truthy(tk) THEN tk ELSE Null

authHeaders == AuthHeader(token)

\* the lists a GET /posts response may carry: the server's posts in any
\* order, each at most once
ServerLists ==
  {s \in UNION {[1..n -> Ids] : n \in 0..Cardinality(Ids)} :
     \A i, j \in DOMAIN s : i # j => s[i] # s[j]}

\* renderPosts throws (TypeError on a null post) before it writes the DOM
RenderThrows(ps) == \E i \in DOMAIN ps : ps[i] = BadPost

\* renderPosts: the placeholder for no posts, else one article per post in
\* sequence order; btn is "armed" for a delete button with its once-listener,
\* "none" when no button is rendered
Render(ps, au) ==
  [i \in DOMAIN ps |-> [id |-> ps[i], btn |-> IF au THEN "armed" ELSE "none"]]

\* what postsContainer holds after renderPosts()
AfterRender(ps, au) == IF RenderThrows(ps) THEN rendered ELSE Render(ps, au)

\* a workflow suspended on fetchJSON; gone is history: the posts that a
\* delete-one removed from state.posts while the call was in flight
Req(kind, hdr) ==
  [k |-> kind, hdr |-> hdr, from |-> "none", id |-> Null, btn |-> 0,
   ids |-> <<>>, pend |-> {}, rej |-> FALSE, tok |-> Null, relog |-> FALSE,
   gone |-> {}]

NoResume == [who |-> "none", how |-> "return", tok |-> Null, relog |-> FALSE]

RECURSIVE SumOver(_, _, _, _)
\* how many elements of the bag B, among those in S, f maps to d
SumOver(B, S, f, d) ==
  IF S = {} THEN 0
  ELSE LET c == CHOOSE x \in S : TRUE
       IN (IF f[c] = d THEN B[c] ELSE 0) + SumOver(B, S \ {c}, f, d)

\* the bag B with every element c replaced by f[c]
BagMap(B, f) ==
  LET S == BagToSet(B)
  IN [d \in {f[c] : c \in S} |-> SumOver(B, S, f, d)]

Put(B, c) == B (+) SetToBag({c})
Take(B, c) == B (-) SetToBag({c})

\* innerHTML was replaced: the buttons of suspended delete handlers are
\* no longer in the document
Detach(B) ==
  BagMap(B, [c \in BagToSet(B) |->
               IF c.k = "delete" THEN [c EXCEPT !.btn = 0] ELSE c])

\* the calls after renderPosts() ran on ps
AfterRenderCalls(B, ps) == IF RenderThrows(ps) THEN B ELSE Detach(B)

\* the record of a handled event: its kind, its outcome or branch, the token
\* or post id it carried, the list it carried; relog is the history flag of
\* a completed sign-out; uncaught says the handler ended with an error
\* nobody catches; btn is the rendered position of the button a delete
\* handler was given (0: none, or no longer in the document); hdr is the
\* bearer token of the request a 401 answers; gone is the history of the
\* list request a response answers
Ev(e, o, t, l) ==
  [ev |-> e, out |-> o, tok |-> t, list |-> l, relog |-> FALSE,
   uncaught |-> FALSE, btn |-> 0, hdr |-> Null, gone |-> {}]

\* the same, of a handler that ended with an uncaught error when threw
EvThrow(e, o, t, l, threw) == [Ev(e, o, t, l) EXCEPT !.uncaught = threw]

\* a successful login response was handled: note it on the reloads that
\* sign-out is waiting for (history, read only by the properties)
MarkRelog(B) ==
  BagMap(B, [c \in BagToSet(B) |->
               IF c.k = "load" /\ c.from = "signout"
               THEN [c EXCEPT !.relog = TRUE] ELSE c])

\* a delete-one removed the post id from state.posts: note it on the list
\* requests in flight (history, read only by the properties)
MarkGone(B, id) ==
  BagMap(B, [c \in BagToSet(B) |->
               IF c.k = "load" THEN [c EXCEPT !.gone = @ \cup {id}] ELSE c])

\* the user dispatches one more event; no continuation is about to run
UserEvent ==
  /\ resume = NoResume
  /\ events < MaxEvents
  /\ events' = events + 1
  /\ UNCHANGED unit

\* a network call settles and its continuation runs
Settle == resume = NoResume /\ events' = events /\ UNCHANGED unit

\* saveToken without the removeItem branch
StoredKeeps(t) == IF Truthy(t) THEN t ELSE storage

\* saveToken without the setItem branch
StoredNever(t) == Null

\* saveToken(token): what localStorage holds afterwards
Stored(t) == IF Truthy(t) THEN t ELSE Null

\* a 401 branch that calls setAuthState(false) without saveToken(null)
ClearSessionKeepsToken(rend) ==
  /\ UNCHANGED <<storage, token>>
  /\ authed' = FALSE
  /\ publishDisabled' = FALSE
  /\ clearDisabled' = FALSE
  /\ rendered' = IF RenderThrows(posts) THEN rend ELSE Render(posts, FALSE)

\* saveToken(null); setAuthState(false), as far as the state and the fixed
\* controls go; rend is what postsContainer holds if renderPosts throws
ClearSession(rend) ==
  /\ storage' = Stored(Null)
  /\ token' = Null
  /\ authed' = FALSE
  /\ publishDisabled' = FALSE
  /\ clearDisabled' = FALSE
  /\ rendered' = IF RenderThrows(posts) THEN rend ELSE Render(posts, FALSE)

\* ---- fetchJSON (lines 51-76) ----------------------------------------------
\* the statuses a Response may carry: both ends of the 2xx range that
\* response.ok accepts, 204, 401 and other failures
Statuses == {200, 204, 299, 300, 400, 401, 404, 500}

\* body texts: empty, plain text, and JSON texts
Bodies == {Empty, "Forbidden", "{}", "{\"token\":\"t1\"}", "null"}

\* response.statusText: the reason phrase, empty over HTTP/2
StatusTexts == {Empty, "Bad Request"}

Responses == [status : Statuses, text : Bodies, statusText : StatusTexts]

\* JSON values: an object with its token property, or null
JsonObject(t) == [type |-> "object", token |-> t]
JsonNull == [type |-> "null", token |-> Undef]
NoValue == [type |-> "undefined", token |-> Undef]

\* JSON texts and the values they parse to
JsonTexts == {"{}", "{\"token\":\"t1\"}", "null"}

\* JSON.parse on the body texts
JsonParse(text) ==
  CASE text = "{}" -> JsonObject(Undef)
    [] text = "{\"token\":\"t1\"}" -> JsonObject("t1")
    [] text = "null" -> JsonNull

\* response.ok
Ok(status) == status \in 200..299

\* a settled call: how it ended (return, or the class of the error thrown),
\* the error's message, the value returned, and the body-reading method used
Outcome(kind, message, returned, read) ==
  [kind |-> kind, message |-> message, value |-> returned, read |-> read]

NoResponse == [status |-> 0, text |-> Empty, statusText |-> Empty]
Pending == Outcome("pending", Empty, NoValue, "none")

\* fetchJSON testing response.ok before the 401 status
fetchJSONOkFirst(r) ==
  IF ~Ok(r.status)
  THEN Outcome("Error",
                IF r.text # Empty THEN r.text
                ELSE IF r.statusText # Empty THEN r.statusText
                ELSE "Request failed.",
                NoValue, "text")
  ELSE IF r.status = 204 THEN Outcome("return", Empty, JsonNull, "none")
  ELSE IF r.text \in JsonTexts
  THEN Outcome("return", Empty, JsonParse(r.text), "json")
  ELSE Outcome("SyntaxError", "Unexpected token", NoValue, "json")

\* lines 61-75: what fetchJSON does with the Response r
fetchJSON(r) ==
  IF r.status = 401
  THEN Outcome("UnauthorizedError", "Unauthorized", NoValue, "none")
  ELSE IF ~Ok(r.status)
  THEN Outcome("Error",
                IF r.text # Empty THEN r.text
                ELSE IF r.statusText # Empty THEN r.statusText
                ELSE "Request failed.",
                NoValue, "text")
  ELSE IF r.status = 204 THEN Outcome("return", Empty, JsonNull, "none")
  ELSE IF r.text \in JsonTexts
  THEN Outcome("return", Empty, JsonParse(r.text), "json")
  ELSE Outcome("SyntaxError", "Unexpected token", NoValue, "json")

\* ---- escapeHtml (lines 299-306) ---------------------------------------------
\* the five special characters, and what is needed to spell "&lt;" in the
\* argument itself
Chars == {"&", "<", ">", "\"", "'", "l", "t", ";"}

Strings == UNION {[1..n -> Chars] : n \in 0..MaxLen}

Amp == <<"&", "a", "m", "p", ";">>
Lt == <<"&", "l", "t", ";">>
Gt == <<"&", "g", "t", ";">>
Quot == <<"&", "q", "u", "o", "t", ";">>
Apos == <<"&", "#", "0", "3", "9", ";">>

RECURSIVE Replace(_, _, _)
\* s.replace(/ch/g, entity)
Replace(s, ch, entity) ==
  IF s = <<>> THEN <<>>
  ELSE (IF Head(s) = ch THEN entity ELSE <<Head(s)>>)
         \o Replace(Tail(s), ch, entity)

\* escapeHtml replacing the ampersand last
escapeHtmlAmpLast(v) ==
  Replace(Replace(Replace(Replace(Replace(v, "<", Lt), ">", Gt),
                          "\"", Quot), "'", Apos), "&", Amp)

\* lines 300-305: the five replacements, in the order of the source
escapeHtml(v) ==
  Replace(Replace(Replace(Replace(Replace(v, "&", Amp), "<", Lt), ">", Gt),
                  "\"", Quot), "'", Apos)

NotEscaped == [done |-> FALSE, html |-> <<>>]

\* ---- startup (lines 390-392) --------------------------------------------
\* the page after the script ran, with the token an earlier session left in
\* localStorage, if any; the tokens are interchangeable, so one of them
\* stands for a stored token
Startup ==
  /\ storage \in {Null, "t1"}
  /\ token = storage
  /\ authed = Truthy(token)
  /\ posts = <<>>
  /\ rendered = <<>>
  /\ loginError = Empty
  /\ editorMessage = Empty
  /\ publishDisabled = FALSE
  /\ clearDisabled = FALSE
  /\ calls = SetToBag({[Req("load", authHeaders) EXCEPT !.from = "startup"]})
  /\ resume = NoResume
  /\ last = Ev("startup", "none", Null, <<>>)
  /\ events = 0

\* no function is under study on its own
Init ==
  /\ Startup
  /\ response = NoResponse
  /\ outcome = Pending
  /\ value = <<>>
  /\ escaped = NotEscaped

\* ---- login ----------------------------------------------------------------
\* handleLogin up to its await: valid says both fields are filled in; the
\* form is in the panel that setAuthState hides while authed
Login(valid) ==
  /\ UserEvent
  /\ ~authed
  /\ loginError' = IF valid THEN Empty ELSE MsgEnterBoth
  /\ calls' = IF valid THEN Put(calls, Req("login", Null)) ELSE calls
  /\ last' = Ev("login", IF valid THEN "sent" ELSE "invalid", Null, <<>>)
  /\ UNCHANGED <<storage, token, authed, posts, rendered, editorMessage,
                 publishDisabled, clearDisabled, resume>>

\* POST /login answered 2xx with a JSON object whose token property is t
LoginOk(c, t) ==
  /\ Settle
  /\ c \in BagToSet(calls) /\ c.k = "login"
  /\ storage' = Stored(t)
  /\ token' = t
  /\ authed' = TRUE
  /\ publishDisabled' = FALSE
  /\ clearDisabled' = FALSE
  /\ rendered' = AfterRender(posts, TRUE)
  /\ loginError' = IF RenderThrows(posts) THEN MsgSignInFail ELSE Empty
  /\ calls' = IF RenderThrows(posts)
              THEN MarkRelog(Take(calls, c))
              ELSE Put(MarkRelog(Detach(Take(calls, c))),
                       [Req("load", AuthHeader(t)) EXCEPT !.from = "login", !.tok = t])
  /\ last' = Ev("loginResp", "ok", t, <<>>)
  /\ UNCHANGED <<posts, editorMessage, resume>>

\* handleLogin treating a 401 like the session-expired path of the other
\* workflows
LoginFailExpires(c, out) ==
  /\ Settle
  /\ c \in BagToSet(calls) /\ c.k = "login"
  /\ storage' = IF out = "401" THEN Null ELSE storage
  /\ token' = IF out = "401" THEN Null ELSE token
  /\ authed' = IF out = "401" THEN FALSE ELSE authed
  /\ loginError' = IF out = "401" THEN MsgBadCreds ELSE MsgSignInFail
  /\ calls' = Take(calls, c)
  /\ last' = Ev("loginResp", out, Null, <<>>)
  /\ UNCHANGED <<posts, rendered, editorMessage, publishDisabled,
                 clearDisabled, resume>>

\* POST /login answered 401, another failure, or 204 (result is null)
LoginFail(c, out) ==
  /\ Settle
  /\ c \in BagToSet(calls) /\ c.k = "login"
  /\ loginError' = IF out = "401" THEN MsgBadCreds ELSE MsgSignInFail
  /\ calls' = Take(calls, c)
  /\ last' = Ev("loginResp", out, Null, <<>>)
  /\ UNCHANGED <<storage, token, authed, posts, rendered, editorMessage,
                 publishDisabled, clearDisabled, resume>>

\* ---- loadPosts ------------------------------------------------------------
\* the caller that continues when loadPosts returns (how = "return") or
\* throws (how = "throw"); startup does not wait for it
Caller(c, how) ==
  IF c.from \in {"login", "signout"}
  THEN [who |-> c.from, how |-> how, tok |-> c.tok, relog |-> c.relog]
  ELSE NoResume

\* loadPosts appending the response to the sequence it holds
LoadedPostsAppended(isArray, list) == IF isArray THEN posts \o list ELSE <<>>

\* line 166: the sequence a successful response leaves in state.posts
LoadedPosts(isArray, list) == IF isArray THEN list ELSE <<>>

\* GET /posts answered 2xx with a JSON object; isArray says result.posts is
\* an array, list is that array
LoadOk(c, isArray, list) ==
  /\ Settle
  /\ c \in BagToSet(calls) /\ c.k = "load"
  /\ ~isArray => list = <<>>
  /\ posts' = LoadedPosts(isArray, list)
  /\ rendered' = AfterRender(posts', authed)
  /\ calls' = AfterRenderCalls(Take(calls, c), posts')
  /\ resume' = Caller(c, "return")
  /\ last' = [Ev("loadResp", IF isArray THEN "ok" ELSE "nolist", Null, list)
                EXCEPT !.gone = c.gone]
  /\ UNCHANGED <<storage, token, authed, loginError, editorMessage,
                 publishDisabled, clearDisabled>>

\* GET /posts failed with something other than 401, or answered 204
LoadFail(c, out) ==
  /\ Settle
  /\ c \in BagToSet(calls) /\ c.k = "load"
  /\ editorMessage' = MsgLoadFail
  /\ calls' = Take(calls, c)
  /\ resume' = Caller(c, "return")
  /\ last' = Ev("loadResp", out, Null, <<>>)
  /\ UNCHANGED <<storage, token, authed, posts, rendered, loginError,
                 publishDisabled, clearDisabled>>

\* GET /posts answered 401
Load401(c) ==
  /\ Settle
  /\ c \in BagToSet(calls) /\ c.k = "load"
  /\ ClearSession(rendered)
  /\ editorMessage' = Empty
  /\ loginError' = IF RenderThrows(posts) THEN loginError ELSE MsgExpired
  /\ calls' = AfterRenderCalls(Take(calls, c), posts)
  /\ resume' = Caller(c, IF RenderThrows(posts) THEN "throw" ELSE "return")
  /\ last' = [EvThrow("loadResp", "401", Null, <<>>,
                       (RenderThrows(posts) /\ c.from = "startup"))
                EXCEPT !.hdr = c.hdr]
  /\ UNCHANGED posts

\* the rest of handleLogin / handleSignOut after `await loadPosts()`
Resume ==
  /\ resume # NoResume
  /\ editorMessage' = IF resume.who = "login" /\ resume.how = "return"
                      THEN MsgWelcome ELSE editorMessage
  /\ loginError' = IF resume.who = "login" /\ resume.how = "throw"
                   THEN MsgSignInFail ELSE loginError
  /\ resume' = NoResume
  /\ events' = events
  /\ UNCHANGED unit
  /\ last' = [Ev(resume.who \o "Done", resume.how, resume.tok, <<>>)
                EXCEPT !.relog = resume.relog,
                       !.uncaught = (resume.who = "signout" /\ resume.how = "throw")]
  /\ UNCHANGED <<storage, token, authed, posts, rendered, publishDisabled,
                 clearDisabled, calls>>

\* ---- sign-out -------------------------------------------------------------
\* lines 155-157: saveToken(null); setAuthState(false); loadPosts() is
\* issued unless renderPosts threw out of setAuthState
SignOutClear(B) ==
  /\ ClearSession(rendered)
  /\ editorMessage' = Empty
  /\ calls' = IF RenderThrows(posts) THEN B
              ELSE Put(Detach(B), [Req("load", Null) EXCEPT !.from = "signout"])
  /\ UNCHANGED <<posts, loginError, resume>>

\* handleSignOut up to its first await; setAuthState hides the button while
\* not authed
SignOut ==
  /\ UserEvent
  /\ authed
  /\ IF Truthy(token)
     THEN /\ calls' = Put(calls, Req("logout", authHeaders))
          /\ last' = Ev("signOut", "revoke", Null, <<>>)
          /\ UNCHANGED <<storage, token, authed, posts, rendered, loginError,
                         editorMessage, publishDisabled, clearDisabled, resume>>
     ELSE /\ SignOutClear(calls)
          /\ last' = EvThrow("signOut", "clear", Null, <<>>, RenderThrows(posts))

\* POST /logout settled, with any outcome
LogoutResp(c, out) ==
  /\ Settle
  /\ c \in BagToSet(calls) /\ c.k = "logout"
  /\ SignOutClear(Take(calls, c))
  /\ last' = EvThrow("logoutResp", out, Null, <<>>, RenderThrows(posts))

\* ---- publish --------------------------------------------------------------
\* handleCreatePost without line 233
DisabledAfterSubmitNoReset(au, valid) == au

\* lines 226-234: publishButton.disabled when handleCreatePost suspends or
\* returns early
DisabledAfterSubmit(au, valid) == au /\ valid

\* handleCreatePost up to its await: valid says title and body are
\* non-empty after trimming
Publish(valid) ==
  /\ UserEvent
  /\ ~publishDisabled
  /\ editorMessage' = IF ~authed THEN MsgSignInToPublish
                      ELSE IF ~valid THEN MsgAddBoth ELSE editorMessage
  /\ publishDisabled' = DisabledAfterSubmit(authed, valid)
  /\ calls' = IF authed /\ valid THEN Put(calls, Req("publish", authHeaders))
              ELSE calls
  /\ last' = Ev("publish", IF ~authed THEN "unauth"
                           ELSE IF ~valid THEN "invalid" ELSE "sent", Null, <<>>)
  /\ UNCHANGED <<storage, token, authed, posts, rendered, loginError,
                 clearDisabled, resume>>

\* line 243: the new post goes in front
Prepend(newPost, ps) == <<newPost>> \o ps

\* POST /posts answered 2xx: newPost is the created post, or BadPost for 204
PublishOk(c, newPost) ==
  /\ Settle
  /\ c \in BagToSet(calls) /\ c.k = "publish"
  /\ Len(posts) < MaxPosts
  /\ \A i \in DOMAIN posts : newPost = BadPost \/ posts[i] # newPost
  /\ posts' = Prepend(newPost, posts)
  /\ editorMessage' = IF RenderThrows(posts') THEN MsgPublishFail ELSE MsgPublished
  /\ rendered' = AfterRender(posts', authed)
  /\ calls' = AfterRenderCalls(Take(calls, c), posts')
  /\ publishDisabled' = FALSE
  /\ last' = Ev("publishResp", IF newPost = BadPost THEN "null" ELSE "ok",
                newPost, <<>>)
  /\ UNCHANGED <<storage, token, authed, loginError, clearDisabled, resume>>

\* POST /posts failed with something other than 401
PublishFail(c) ==
  /\ Settle
  /\ c \in BagToSet(calls) /\ c.k = "publish"
  /\ editorMessage' = MsgPublishFail
  /\ publishDisabled' = FALSE
  /\ calls' = Take(calls, c)
  /\ last' = Ev("publishResp", "err", Null, <<>>)
  /\ UNCHANGED <<storage, token, authed, posts, rendered, loginError,
                 clearDisabled, resume>>

\* POST /posts answered 401
Publish401(c) ==
  /\ Settle
  /\ c \in BagToSet(calls) /\ c.k = "publish"
  /\ ClearSession(rendered)
  /\ editorMessage' = Empty
  /\ loginError' = IF RenderThrows(posts) THEN loginError ELSE MsgExpired
  /\ calls' = AfterRenderCalls(Take(calls, c), posts)
  /\ last' = [EvThrow("publishResp", "401", Null, <<>>, RenderThrows(posts))
                EXCEPT !.hdr = c.hdr]
  /\ UNCHANGED <<posts, resume>>

\* ---- export ---------------------------------------------------------------
Export ==
  /\ UserEvent
  /\ editorMessage' = IF posts = <<>> THEN MsgNoExport ELSE MsgExported
  /\ last' = Ev("export", IF posts = <<>> THEN "empty" ELSE "done", Null, posts)
  /\ UNCHANGED <<storage, token, authed, posts, rendered, loginError,
                 publishDisabled, clearDisabled, calls, resume>>

\* ---- delete one -----------------------------------------------------------
\* the click listener of the i-th rendered delete button (once: true), up
\* to the await; confirmed is the answer to window.confirm
DeleteClick(i, confirmed) ==
  /\ UserEvent
  /\ i \in DOMAIN rendered /\ rendered[i].btn = "armed"
  /\ editorMessage' = IF ~authed THEN MsgSignInToManage ELSE editorMessage
  /\ rendered' = [rendered EXCEPT
                    ![i].btn = IF authed /\ confirmed THEN "disabled" ELSE "spent"]
  /\ calls' = IF authed /\ confirmed
              THEN Put(calls, [Req("delete", authHeaders) EXCEPT
                                 !.id = rendered[i].id, !.btn = i])
              ELSE calls
  /\ last' = Ev("delete", IF ~authed THEN "unauth"
                          ELSE IF ~confirmed THEN "declined" ELSE "sent",
                rendered[i].id, <<>>)
  /\ UNCHANGED <<storage, token, authed, posts, loginError, publishDisabled,
                 clearDisabled, resume>>

\* line 288: button.disabled = false, on the button the handler was given
Enable(rend, c) ==
  IF c.btn \in DOMAIN rend THEN [rend EXCEPT ![c.btn].btn = "spent"] ELSE rend

\* line 283: the filter callback reads post.id of every post
FilterThrows(ps) == \E i \in DOMAIN ps : ps[i] = BadPost

\* line 283: the posts whose id is not the deleted one
Without(ps, id) == SelectSeq(ps, LAMBDA p : p # id)

\* DELETE /posts/{id} answered 2xx
DeleteOk(c) ==
  /\ Settle
  /\ c \in BagToSet(calls) /\ c.k = "delete"
  /\ posts' = IF FilterThrows(posts) THEN posts ELSE Without(posts, c.id)
  /\ editorMessage' = IF FilterThrows(posts) THEN MsgDeleteFail ELSE MsgDeleted
  /\ rendered' = IF FilterThrows(posts) THEN Enable(rendered, c)
                 ELSE Render(posts', authed)
  /\ calls' = IF FilterThrows(posts) THEN Take(calls, c)
              ELSE IF posts' # posts
              THEN MarkGone(Detach(Take(calls, c)), c.id)
              ELSE Detach(Take(calls, c))
  /\ last' = [Ev("deleteResp", "ok", c.id, <<>>) EXCEPT !.btn = c.btn]
  /\ UNCHANGED <<storage, token, authed, loginError, publishDisabled,
                 clearDisabled, resume>>

\* DELETE /posts/{id} failed with something other than 401
DeleteFail(c) ==
  /\ Settle
  /\ c \in BagToSet(calls) /\ c.k = "delete"
  /\ editorMessage' = MsgDeleteFail
  /\ rendered' = Enable(rendered, c)
  /\ calls' = Take(calls, c)
  /\ last' = [Ev("deleteResp", "err", c.id, <<>>) EXCEPT !.btn = c.btn]
  /\ UNCHANGED <<storage, token, authed, posts, loginError, publishDisabled,
                 clearDisabled, resume>>

\* DELETE /posts/{id} answered 401
Delete401(c) ==
  /\ Settle
  /\ c \in BagToSet(calls) /\ c.k = "delete"
  /\ ClearSession(Enable(rendered, c))
  /\ editorMessage' = Empty
  /\ loginError' = IF RenderThrows(posts) THEN loginError ELSE MsgExpired
  /\ calls' = AfterRenderCalls(Take(calls, c), posts)
  /\ last' = [EvThrow("deleteResp", "401", c.id, <<>>, RenderThrows(posts))
                EXCEPT !.btn = c.btn, !.hdr = c.hdr]
  /\ UNCHANGED <<posts, resume>>

\* ---- delete all -----------------------------------------------------------
\* line 348: the posts the map callback reaches before post.id throws
Reached(ps) ==
  IF FilterThrows(ps)
  THEN SubSeq(ps, 1, (CHOOSE j \in DOMAIN ps :
                        ps[j] = BadPost /\ \A i \in 1..(j - 1) : ps[i] # BadPost) - 1)
  ELSE ps

\* handleClear up to `await Promise.all(...)`; confirmed is the answer to
\* window.confirm
Clear(confirmed) ==
  /\ UserEvent
  /\ ~clearDisabled
  /\ LET go == posts # <<>> /\ authed /\ confirmed
         threw == go /\ FilterThrows(posts)
         req == [Req("clear", authHeaders) EXCEPT
                   !.ids = Reached(posts), !.pend = DOMAIN Reached(posts),
                   !.rej = threw]
     IN /\ editorMessage' = IF posts = <<>> THEN MsgNothing
                            ELSE IF ~authed THEN MsgSignInToRemove
                            ELSE IF threw THEN MsgClearFail ELSE editorMessage
        /\ clearDisabled' = (go /\ ~threw)
        /\ calls' = IF go /\ req.pend # {} THEN Put(calls, req) ELSE calls
        /\ last' = Ev("clear", IF posts = <<>> THEN "empty"
                               ELSE IF ~authed THEN "unauth"
                               ELSE IF ~confirmed THEN "declined"
                               ELSE IF threw THEN "threw" ELSE "sent",
                      Null, Reached(posts))
  /\ UNCHANGED <<storage, token, authed, posts, rendered, loginError,
                 publishDisabled, resume>>

\* delete-all c after its i-th call settled; rej says Promise.all has
\* rejected
Settled(B, c, i, rej) ==
  IF c.pend = {i} THEN Take(B, c)
  ELSE Put(Take(B, c), [c EXCEPT !.pend = c.pend \ {i}, !.rej = rej])

\* a call of a delete-all settles after Promise.all has rejected (or was
\* never reached): nobody is waiting for it
ClearLate(c, i, out) ==
  /\ Settle
  /\ c \in BagToSet(calls) /\ c.k = "clear" /\ i \in c.pend /\ c.rej
  /\ calls' = Settled(calls, c, i, TRUE)
  /\ last' = Ev("clearLate", out, c.ids[i], c.ids)
  /\ UNCHANGED <<storage, token, authed, posts, rendered, loginError,
                 editorMessage, publishDisabled, clearDisabled, resume>>

\* a call of a delete-all succeeds while others are still pending
ClearPartOk(c, i) ==
  /\ Settle
  /\ c \in BagToSet(calls) /\ c.k = "clear" /\ i \in c.pend /\ ~c.rej
  /\ c.pend # {i}
  /\ calls' = Settled(calls, c, i, FALSE)
  /\ last' = Ev("clearResp", "partOk", c.ids[i], c.ids)
  /\ UNCHANGED <<storage, token, authed, posts, rendered, loginError,
                 editorMessage, publishDisabled, clearDisabled, resume>>

\* the last pending call of a delete-all succeeds: Promise.all resolves
ClearAllOk(c, i) ==
  /\ Settle
  /\ c \in BagToSet(calls) /\ c.k = "clear" /\ c.pend = {i} /\ ~c.rej
  /\ posts' = <<>>
  /\ editorMessage' = MsgCleared
  /\ rendered' = Render(posts', authed)
  /\ calls' = Detach(Take(calls, c))
  /\ clearDisabled' = FALSE
  /\ last' = Ev("clearResp", "allOk", c.ids[i], c.ids)
  /\ UNCHANGED <<storage, token, authed, loginError, publishDisabled, resume>>

\* the first failing call of a delete-all fails with something other than
\* 401: Promise.all rejects
ClearFail(c, i) ==
  /\ Settle
  /\ c \in BagToSet(calls) /\ c.k = "clear" /\ i \in c.pend /\ ~c.rej
  /\ editorMessage' = MsgClearFail
  /\ clearDisabled' = FALSE
  /\ calls' = Settled(calls, c, i, TRUE)
  /\ last' = Ev("clearResp", "err", c.ids[i], c.ids)
  /\ UNCHANGED <<storage, token, authed, posts, rendered, loginError,
                 publishDisabled, resume>>

\* the first failing call of a delete-all is answered 401
Clear401(c, i) ==
  /\ Settle
  /\ c \in BagToSet(calls) /\ c.k = "clear" /\ i \in c.pend /\ ~c.rej
  /\ ClearSession(rendered)
  /\ editorMessage' = Empty
  /\ loginError' = IF RenderThrows(posts) THEN loginError ELSE MsgExpired
  /\ calls' = AfterRenderCalls(Settled(calls, c, i, TRUE), posts)
  /\ last' = [EvThrow("clearResp", "401", c.ids[i], c.ids,
                       RenderThrows(posts))
                EXCEPT !.hdr = c.hdr]
  /\ UNCHANGED <<posts, resume>>

\* ---- the program ----------------------------------------------------------
Outcomes == {"ok", "401", "err"}

InFlight == BagToSet(calls)

Next ==
  \/ \E valid \in BOOLEAN : Login(valid)
  \/ \E c \in InFlight, t \in Tokens \cup {Empty, Undef} : LoginOk(c, t)
  \/ \E c \in InFlight, out \in {"401", "err", "null"} : LoginFail(c, out)
  \/ \E c \in InFlight, isArray \in BOOLEAN, list \in ServerLists :
       LoadOk(c, isArray, list)
  \/ \E c \in InFlight, out \in {"err", "null"} : LoadFail(c, out)
  \/ \E c \in InFlight : Load401(c)
  \/ Resume
  \/ SignOut
  \/ \E c \in InFlight, out \in Outcomes : LogoutResp(c, out)
  \/ \E valid \in BOOLEAN : Publish(valid)
  \/ \E c \in InFlight, newPost \in Ids \cup {BadPost} : PublishOk(c, newPost)
  \/ \E c \in InFlight : PublishFail(c)
  \/ \E c \in InFlight : Publish401(c)
  \/ Export
  \/ \E i \in DOMAIN rendered, confirmed \in BOOLEAN : DeleteClick(i, confirmed)
  \/ \E c \in InFlight : DeleteOk(c)
  \/ \E c \in InFlight : DeleteFail(c)
  \/ \E c \in InFlight : Delete401(c)
  \/ \E confirmed \in BOOLEAN : Clear(confirmed)
  \/ \E c \in InFlight, i \in 1..MaxPosts, out \in Outcomes : ClearLate(c, i, out)
  \/ \E c \in InFlight, i \in 1..MaxPosts : ClearPartOk(c, i)
  \/ \E c \in InFlight, i \in 1..MaxPosts : ClearAllOk(c, i)
  \/ \E c \in InFlight, i \in 1..MaxPosts : ClearFail(c, i)
  \/ \E c \in InFlight, i \in 1..MaxPosts : Clear401(c, i)

Spec == Init /\ [][Next]_vars

\* ---- fetchJSON on its own ------------------------------------------------
\* fetch resolved with any of the responses; the page plays no part
InitFetch ==
  /\ Startup /\ storage = Null
  /\ response \in Responses
  /\ outcome = Pending
  /\ value = <<>>
  /\ escaped = NotEscaped

\* fetchJSON runs to its end on the response
Fetch ==
  /\ outcome = Pending
  /\ outcome' = fetchJSON(response)
  /\ UNCHANGED <<page, response, value, escaped>>

NextFetch == Fetch

SpecFetch == InitFetch /\ [][NextFetch]_vars

\* ---- escapeHtml on its own -----------------------------------------------
\* renderPosts hands escapeHtml any title or body; the page plays no part
InitEscape ==
  /\ Startup /\ storage = Null
  /\ response = NoResponse
  /\ outcome = Pending
  /\ value \in Strings
  /\ escaped = NotEscaped

\* escapeHtml returns
Escape ==
  /\ ~escaped.done
  /\ escaped' = [done |-> TRUE, html |-> escapeHtml(value)]
  /\ UNCHANGED <<page, response, outcome, value>>

NextEscape == Escape

SpecEscape == InitEscape /\ [][NextEscape]_vars

\* ---- properties -----------------------------------------------------------
Cleared == ~authed /\ storage = Null /\ token = Null

Is401 ==
  /\ last.out = "401"
  /\ last.ev \in {"loadResp", "publishResp", "deleteResp", "clearResp", "clearLate"}

SignOutCleared ==
  \/ last.ev = "logoutResp"
  \/ last.ev = "signOut" /\ last.out = "clear"

\* C1: in every reachable state, state.authed is true only if state.token is
\* a non-empty string.
C1_AuthedOnlyWithToken == authed => Truthy(token)

\* C2: in the state right after a 401 response to a call of load-posts,
\* publish, delete-one or delete-all was handled, the persisted token is
\* removed, state.token is cleared, state.authed is false and the
\* session-expired message is shown.
C2_Any401Expires == Is401 => (Cleared /\ loginError = MsgExpired)

\* C3 as stated: when the sign-out workflow has completed, the session is
\* Unauthenticated and the persisted token and state.token are empty.
C3_SignOutEndsCleared == last.ev = "signoutDone" => Cleared

\* C3 as amended: the step in which sign-out clears the session (at once when
\* there is no token, else when the revoke call settles, with any outcome)
\* leaves the session Unauthenticated and both tokens empty, and that still
\* holds when the workflow completes, for every outcome of the reload, unless
\* a successful login response was handled after the clearing step.
C3_SignOutClears ==
  (SignOutCleared \/ (last.ev = "signoutDone" /\ ~last.relog)) => Cleared

C3_Witness ==
  /\ last.ev = "signoutDone" /\ last.out = "return" /\ ~last.relog
  /\ editorMessage = MsgLoadFail
  /\ Cleared

\* C4 as stated: when a login workflow whose POST /login returned a token has
\* completed, the session is Authenticated, the token store holds the
\* returned token and the sign-in success message is shown.
C4_LoginEndsAuthed ==
  (last.ev = "loginDone" /\ Truthy(last.tok)) =>
    (authed /\ storage = last.tok /\ token = last.tok /\ editorMessage = MsgWelcome)

\* C4 as amended: the step that handles a login response carrying a non-empty
\* token leaves the session Authenticated with that token in state.token and
\* in the token store; when the workflow completes after its reload has
\* returned, the success message is shown for every outcome of the reload,
\* and the session is still Authenticated with the returned token stored
\* unless state.token was cleared or replaced in the meantime.
C4_LoginAuthenticates ==
  /\ (last.ev = "loginResp" /\ last.out = "ok" /\ Truthy(last.tok)) =>
       (authed /\ storage = last.tok /\ token = last.tok)
  /\ (last.ev = "loginDone" /\ last.out = "return") =>
       /\ editorMessage = MsgWelcome
       /\ (Truthy(last.tok) /\ token = last.tok) => (authed /\ storage = last.tok)

C4_Witness ==
  /\ last.ev = "loginDone" /\ last.out = "return" /\ Truthy(last.tok)
  /\ authed /\ token = last.tok /\ storage = last.tok
  /\ editorMessage = MsgWelcome

\* C5: the session goes from Unauthenticated to Authenticated only in a step
\* that handles a successful login response, from Authenticated to
\* Unauthenticated only in a sign-out step or a step that handles a 401, and
\* no other step changes state.authed, state.token or the persisted token.
C5_SessionTransitions ==
  [][LET loginOk == last'.ev = "loginResp" /\ last'.out = "ok"
         signOut == SignOutCleared'
         expired == Is401'
     IN /\ (~authed /\ authed') => loginOk
        /\ (authed /\ ~authed') => (signOut \/ expired)
        /\ (authed' # authed \/ token' # token \/ storage' # storage) =>
             (loginOk \/ signOut \/ expired)]_vars

C5_Witness ==
  /\ last.ev = "publishResp" /\ last.out = "err"
  /\ authed /\ Truthy(token) /\ storage = token

\* C6: a delete-all one of whose calls fails removes no post from the
\* in-memory sequence and shows a failure message; a delete-all changes the
\* sequence only when all its calls succeeded, and then empties it.
C6_ClearAllOrNothing ==
  [][/\ (last'.ev = "clearResp" /\ last'.out \in {"err", "401"}) =>
          /\ posts' = posts
          /\ (editorMessage' = MsgClearFail \/ loginError' = MsgExpired)
     /\ (last'.ev \in {"clear", "clearResp", "clearLate"} /\ posts' # posts) =>
          (last'.out = "allOk" /\ posts' = <<>>)]_vars

\* C7: a publish attempt with an empty title or body, or made while
\* Unauthenticated, issues no network call, leaves the post sequence, the
\* token and the session state unchanged and leaves the publish control
\* enabled.
C7_RejectedPublishChangesNothing ==
  [][(last'.ev = "publish" /\ last'.out \in {"invalid", "unauth"}) =>
       /\ calls' = calls
       /\ posts' = posts
       /\ token' = token /\ storage' = storage /\ authed' = authed
       /\ ~publishDisabled']_vars

C7_Witness ==
  /\ last.ev = "publish" /\ last.out = "invalid"
  /\ authed /\ ~publishDisabled
  /\ \A c \in InFlight : c.k # "publish"

\* C8: whenever a POST /posts request is in flight the publish control is
\* disabled, and at most one such request is in flight.
C8_PublishInFlightDisabled ==
  LET posting == {c \in InFlight : c.k = "publish"}
  IN posting # {} =>
       /\ publishDisabled
       /\ Cardinality(posting) = 1
       /\ \A c \in posting : calls[c] = 1

\* C9: while a delete call of a delete-all is in flight, that delete-all has
\* not reported its outcome and the clear control is disabled.
C9_ClearWaitsForAll ==
  \A c \in InFlight : c.k = "clear" => (~c.rej /\ clearDisabled)

C11_DeleteOneRemovesExactly ==
  [][/\ (last'.ev = "deleteResp" /\ last'.out = "ok") =>
          /\ \A i \in DOMAIN posts' : posts'[i] # last'.tok
          /\ posts' = SelectSeq(posts, LAMBDA p : p # last'.tok)
     /\ (last'.ev = "deleteResp" /\ last'.out \in {"err", "401"}) =>
          /\ posts' = posts
          /\ last'.btn \in DOMAIN rendered' =>
                rendered'[last'.btn].btn # "disabled"]_vars

\* C12: no workflow handler (login, sign-out, load, publish, delete-one,
\* delete-all) ends with an error that nothing catches, whatever the outcome
\* of its network call.
C12_NoUncaughtError == ~last.uncaught

\* the message rule of a failed request: the body text, else the status
\* text, else the fixed message
FailureMessage ==
  IF response.text # Empty THEN response.text
  ELSE IF response.statusText # Empty THEN response.statusText
  ELSE "Request failed."

Success == response.status \in 200..299

\* the first three outcomes: 401, another non-success status, 204
ClassifiedByStatus ==
  /\ response.status = 401 =>
       /\ outcome.kind = "UnauthorizedError"
       /\ outcome.read = "none"
  /\ (response.status # 401 /\ ~Success) =>
       /\ outcome.kind = "Error"
       /\ outcome.message = FailureMessage
  /\ response.status = 204 =>
       /\ outcome.kind = "return"
       /\ outcome.value = JsonNull
       /\ outcome.read = "none"

\* C13 as stated: 401 fails with Unauthorized without reading the body; any
\* other non-success status fails with a generic error whose message is the
\* body text, else the status text, else "Request failed."; 204 returns null;
\* any other success returns the parsed JSON body.
C13_FourOutcomes ==
  outcome # Pending =>
    /\ ClassifiedByStatus
    /\ (Success /\ response.status # 204) =>
         /\ outcome.kind = "return"
         /\ response.text \in JsonTexts
         /\ outcome.value = JsonParse(response.text)

\* C13 as amended: the same for 401, the other non-success statuses and 204;
\* any other success status returns the parsed body when the body is a JSON
\* text and fails with the parser's error, which is neither Unauthorized nor
\* the generic error of the message rule, when it is not.
C13_ClassifiedByStatus ==
  outcome # Pending =>
    /\ ClassifiedByStatus
    /\ (Success /\ response.status # 204) =>
         /\ outcome.read = "json"
         /\ IF response.text \in JsonTexts
            THEN /\ outcome.kind = "return"
                 /\ outcome.value = JsonParse(response.text)
            ELSE outcome.kind = "SyntaxError"

C13_Witness ==
  /\ response.status = 299 /\ response.text = "Forbidden"
  /\ outcome.kind = "SyntaxError" /\ outcome.read = "json"

\* C14: whenever control is back in the event loop, the rendered list is the
\* placeholder when the in-memory sequence is empty, and otherwise shows the
\* posts in sequence order, each with a delete control tagged with its id
\* exactly when state.authed is true.
C14_RenderedMatchesState ==
  /\ Len(rendered) = Len(posts)
  /\ \A i \in DOMAIN rendered :
       /\ rendered[i].id = posts[i]
       /\ rendered[i].btn # "none" <=> authed

Entities == {Amp, Lt, Gt, Quot, Apos}

\* the entity e is spelled out in h from position i on
EntityAt(h, i, e) ==
  /\ i + Len(e) - 1 <= Len(h)
  /\ SubSeq(h, i, i + Len(e) - 1) = e

\* the character an entity stands for
Decoded(e) ==
  CASE e = Amp -> "&" [] e = Lt -> "<" [] e = Gt -> ">"
    [] e = Quot -> "\"" [] e = Apos -> "'"

RECURSIVE Decode(_)
\* what an HTML parser makes of the text h: every one of the five entities
\* becomes its character, everything else stays
Decode(h) ==
  IF h = <<>> THEN <<>>
  ELSE IF \E e \in Entities : EntityAt(h, 1, e)
  THEN LET e == CHOOSE x \in Entities : EntityAt(h, 1, x)
       IN <<Decoded(e)>> \o Decode(SubSeq(h, Len(e) + 1, Len(h)))
  ELSE <<Head(h)>> \o Decode(Tail(h))

\* C15: for every string s over an alphabet that includes & < > " ',
\* escapeHtml(s) holds no literal < > " ', holds & only as the first character
\* of one of the entities &amp; &lt; &gt; &quot; &#039;, and decoding those
\* entities in it yields s again.
C15_EscapeHtmlRoundTrip ==
  escaped.done =>
    /\ \A i \in DOMAIN escaped.html :
         /\ escaped.html[i] \notin {"<", ">", "\"", "'"}
         /\ escaped.html[i] = "&" =>
              \E e \in Entities : EntityAt(escaped.html, i, e)
    /\ Decode(escaped.html) = value

C15_Witness ==
  /\ escaped.done
  /\ value = <<"&", "l", "t", ";">>
  /\ escaped.html = <<"&", "a", "m", "p", ";", "l", "t", ";">>
  /\ Decode(escaped.html) = value

\* C16: whenever control is back in the event loop, the persisted token and
\* state.token agree (both absent or empty, or both the same non-empty
\* string), and while the session is Unauthenticated both are absent.
C16_TokenStoreAgrees ==
  /\ IF Truthy(token) THEN storage = token ELSE storage = Null
  /\ ~authed => (storage = Null /\ token = Null)

C16_Witness ==
  /\ last.ev = "publishResp" /\ last.out = "401"
  /\ ~authed /\ storage = Null /\ token = Null

\* C17: a 401 answering a request that was issued without a token, or under
\* a token that a later successful login has replaced, does not clear the
\* newer token and does not make the newer session Unauthenticated.
C17_StaleUnauthorizedIgnored ==
  [][(/\ last'.out = "401"
      /\ last'.ev \in {"loadResp", "publishResp", "deleteResp", "clearResp"}
      /\ authed /\ Truthy(token)
      /\ last'.hdr # token) =>
       (token' = token /\ storage' = storage /\ authed')]_vars

\* C18: a post that a successful delete-one removed from the in-memory
\* sequence is not in the sequence after the response of a list request that
\* was in flight when that delete completed has been applied.
C18_DeletedStaysDeleted ==
  [][(last'.ev = "loadResp" /\ last'.out = "ok") =>
       \A i \in DOMAIN posts' : posts'[i] \notin last'.gone]_vars

\* C19: when a delete-all completes successfully, every post it removes
\* from the in-memory sequence is one for which it issued a delete call (all
\* of which succeeded); a post that a publish prepended meanwhile stays.
C19_ClearRemovesOnlyDeleted ==
  [][(last'.ev = "clearResp" /\ last'.out = "allOk") =>
       \A i \in DOMAIN posts :
         (\A j \in DOMAIN posts' : posts'[j] # posts[i]) =>
           \E k \in DOMAIN last'.list : last'.list[k] = posts[i]]_vars

\* C20: every POST /posts and DELETE /posts/{id} request is issued while the
\* session is Authenticated and carries an Authorization: Bearer header
\* holding the token that is current when the request is issued.
C20_WritesCarryToken ==
  [][(last'.ev \in {"publish", "delete", "clear"} /\ last'.out \in {"sent", "threw"}) =>
       /\ authed
       /\ \A c \in BagToSet(calls') :
            (c.k \in {"publish", "delete", "clear"}
               /\ CopiesIn(c, calls') > CopiesIn(c, calls)) =>
              (Truthy(c.hdr) /\ c.hdr = token)]_vars

====
